---- MODULE Spec2Model ----
(***************************************************************************)
(* Dell Unity MCP server: the tool generator (tool_generator.py), the      *)
(* request dispatcher (server.py) and the API client (api_client.py).      *)
(*                                                                         *)
(* Python strings that the code takes apart (paths, tool names, operation  *)
(* ids, HTTP method names) are sequences of one-character strings, so that *)
(* split, startswith, join, lower and capitalize are computed character by *)
(* character.  Strings that the code only compares or uses as dictionary   *)
(* keys (argument keys, parameter names, error class names) are TLA+       *)
(* strings.                                                                *)
(***************************************************************************)
EXTENDS Integers, Sequences, FiniteSets, TLC

VARIABLES
    config,          \* Config: allowed_http_methods, max_retries
    document,        \* the OpenAPI document at local_spec_path
    tool_generator,  \* UnityMCPServer.tool_generator: None or a ToolGenerator
    tools,           \* UnityMCPServer.tools
    initialized,     \* UnityMCPServer._initialized
    runs,            \* history: the list returned by each generate_tools call
    origins,         \* history: the (path, method) each descriptor of the last run came from
    resolved,        \* history: the last _get_path_for_tool call and its result
    calls,           \* the _execute_tool invocations, one record per call slot
    init_calls,      \* history: the number of initialize() calls made so far
    loads,           \* history: the number of load_openapi_spec calls made so far
    http,            \* MCPHttpServer: _initialized, its ServerMetrics, its handlers
    probe            \* a UnityAPIClient and the health_check call made on it

vars == <<config, document, tool_generator, tools, initialized, runs, origins,
          resolved, calls, init_calls, loads, http, probe>>

(***************************************************************************)
(* Bounds of the model.                                                    *)
(***************************************************************************)
MaxPaths == 3        \* paths per enumerated OpenAPI document
MaxRuns == 2         \* generate_tools calls on one ToolGenerator
MaxRetriesCfg == 4   \* largest max_retries value enumerated
MaxInitCalls == 2    \* initialize() calls on one server

(***************************************************************************)
(* Characters and the str methods the code uses.                           *)
(***************************************************************************)
LowerCase == <<"a", "b", "c", "d", "e", "f", "g", "h", "i", "j", "k", "l", "m",
               "n", "o", "p", "q", "r", "s", "t", "u", "v", "w", "x", "y", "z">>
UpperCase == <<"A", "B", "C", "D", "E", "F", "G", "H", "I", "J", "K", "L", "M",
               "N", "O", "P", "Q", "R", "S", "T", "U", "V", "W", "X", "Y", "Z">>
DigitChars == <<"0", "1", "2", "3", "4", "5", "6", "7", "8", "9">>

Range(s) == {s[i] : i \in DOMAIN s}

\* the names of a list of descriptors
Names(ts) == [i \in DOMAIN ts |-> ts[i].name]

PairwiseDistinct(s) == \A i, j \in DOMAIN s : i # j => s[i] # s[j]

IndexOf(s, c) == CHOOSE i \in DOMAIN s : s[i] = c

\* str.isalnum for one character
IsAlnum(c) == c \in Range(LowerCase) \cup Range(UpperCase) \cup Range(DigitChars)

\* str.lower / str.upper for one character
LowerChar(c) == IF c \in Range(UpperCase) THEN LowerCase[IndexOf(UpperCase, c)] ELSE c
UpperChar(c) == IF c \in Range(LowerCase) THEN UpperCase[IndexOf(LowerCase, c)] ELSE c

\* str.lower
Lower(s) == [i \in DOMAIN s |-> LowerChar(s[i])]

\* str.capitalize: first character upper-cased, the rest lower-cased
Capitalize(s) == [i \in DOMAIN s |-> IF i = 1 THEN UpperChar(s[i]) ELSE LowerChar(s[i])]

\* str.startswith
StartsWith(s, p) == Len(p) <= Len(s) /\ SubSeq(s, 1, Len(p)) = p

\* str(int) for a non-negative integer
RECURSIVE Str(_)
Str(n) == IF n < 10 THEN <<DigitChars[n + 1]>>
          ELSE Str(n \div 10) \o <<DigitChars[(n % 10) + 1]>>

\* str.split(sep) for a one-character separator: "" gives [""], "/x" gives ["", "x"]
RECURSIVE SplitFrom(_, _, _, _)
SplitFrom(s, sep, i, cur) ==
    IF i > Len(s) THEN <<cur>>
    ELSE IF s[i] = sep THEN <<cur>> \o SplitFrom(s, sep, i + 1, <<>>)
    ELSE SplitFrom(s, sep, i + 1, Append(cur, s[i]))

Split(s, sep) == SplitFrom(s, sep, 1, <<>>)

\* sep.join(parts)
RECURSIVE Join(_, _)
Join(parts, sep) ==
    IF Len(parts) = 0 THEN <<>>
    ELSE IF Len(parts) = 1 THEN parts[1]
    ELSE parts[1] \o sep \o Join(Tail(parts), sep)

\* parts[-2:]
LastTwo(parts) == IF Len(parts) <= 2 THEN parts ELSE SubSeq(parts, Len(parts) - 1, Len(parts))

\* the literal "/instances" of path.endswith("/instances")
CollectionSuffix == <<"/", "i", "n", "s", "t", "a", "n", "c", "e", "s">>

\* endswith that finds the suffix anywhere in the string
EndsWith_Anywhere(s, p) ==
    \E i \in 1..(Len(s) - Len(p) + 1) : SubSeq(s, i, i + Len(p) - 1) = p

\* str.endswith
EndsWith(s, p) == Len(p) <= Len(s) /\ SubSeq(s, Len(s) - Len(p) + 1, Len(s)) = p

GET == <<"g", "e", "t">>
POST == <<"p", "o", "s", "t">>
API == <<"a", "p", "i">>

(***************************************************************************)
(* tool_generator.py                                                       *)
(***************************************************************************)
DEFAULT_ALLOWED_METHODS == << <<"G", "E", "T">> >>

EmptyNames == [n \in {} |-> 0]

\* ToolGenerator.__init__; an allowed_methods of <<>> is None or an empty list
ToolGenerator(spec, allowed_methods) ==
    [spec |-> spec,
     tool_names |-> EmptyNames,
     allowed_methods |->
        LET ms == IF allowed_methods = <<>>
                  THEN DEFAULT_ALLOWED_METHODS ELSE allowed_methods
        IN [i \in DOMAIN ms |-> Lower(ms[i])]]

\* ToolGenerator._generate_tool_name_from_path
_generate_tool_name_from_path(path, method) ==
    LET parts == Split(path, "/")
        Meaningful(p) == p # <<>> /\ p[1] # "{" /\ p # API
        meaningful_parts == SelectSeq(parts, Meaningful)
        name_parts == <<method>> \o meaningful_parts
        cleaned(part) == [i \in DOMAIN part |-> IF IsAlnum(part[i]) THEN part[i] ELSE "_"]
        RECURSIVE Camel(_, _)
        Camel(i, name) ==
            IF i > Len(name_parts) THEN name
            ELSE IF i = 1 THEN Camel(i + 1, Lower(cleaned(name_parts[i])))
            ELSE Camel(i + 1, name \o Capitalize(cleaned(name_parts[i])))
    IN Camel(1, <<>>)

\* ToolGenerator._make_unique_name: the name and the updated tool_names table
_make_unique_name(tool_names, tool_name, path) ==
    IF tool_name \in DOMAIN tool_names
    THEN LET count == tool_names[tool_name] + 1
             NonParam(p) == p # <<>> /\ p[1] # "{"
             path_parts == SelectSeq(Split(path, "/"), NonParam)
             path_suffix == IF Len(path_parts) >= 2
                            THEN Join(LastTwo(path_parts), <<"_">>)
                            ELSE Str(count)
         IN [name |-> tool_name \o <<"_">> \o path_suffix,
             tool_names |-> [tool_names EXCEPT ![tool_name] = count]]
    ELSE [name |-> tool_name,
          tool_names |-> [n \in DOMAIN tool_names \cup {tool_name} |->
                             IF n = tool_name THEN 0 ELSE tool_names[n]]]

\* ToolGenerator._convert_openapi_type
_convert_openapi_type(openapi_type) ==
    CASE openapi_type = "integer" -> "number"
      [] openapi_type = "number" -> "number"
      [] openapi_type = "string" -> "string"
      [] openapi_type = "boolean" -> "boolean"
      [] openapi_type = "array" -> "array"
      [] openapi_type = "object" -> "object"
      [] OTHER -> "string"

\* properties[key] = value on a dict kept as a function
Put(d, key, value) == [k \in DOMAIN d \cup {key} |-> IF k = key THEN value ELSE d[k]]

CredentialProperties ==
    [k \in {"host", "username", "password"} |-> [type |-> "string"]]

\* _generate_input_schema that lists every declared parameter as required
_generate_input_schema_AllRequired(operation, is_collection_query) ==
    LET parameters == operation.parameters
        RECURSIVE AddParams(_, _, _)
        AddParams(i, properties, required) ==
            IF i > Len(parameters)
            THEN [raised |-> FALSE, properties |-> properties, required |-> required]
            ELSE LET param == parameters[i] IN
                 IF ~param.mapping
                 THEN [raised |-> TRUE, properties |-> properties, required |-> required]
                 ELSE IF param.name = "" \/ param.in \notin {"query", "path"}
                 THEN AddParams(i + 1, properties, required)
                 ELSE AddParams(i + 1,
                                Put(properties, param.name,
                                    [type |-> _convert_openapi_type(param.type)]),
                                Append(required, param.name))
        declared == AddParams(1, CredentialProperties, <<"host", "username", "password">>)
    IN [raised |-> declared.raised,
        schema |-> [type |-> "object",
                    properties |-> declared.properties,
                    required |-> declared.required,
                    additionalProperties |-> TRUE]]

\* ToolGenerator._generate_input_schema.  An entry of "parameters" that is not
\* a mapping makes param.get raise; raised tells the caller so.
_generate_input_schema(operation, is_collection_query) ==
    LET parameters == operation.parameters
        RECURSIVE AddParams(_, _, _)
        AddParams(i, properties, required) ==
            IF i > Len(parameters)
            THEN [raised |-> FALSE, properties |-> properties, required |-> required]
            ELSE LET param == parameters[i] IN
                 IF ~param.mapping
                 THEN [raised |-> TRUE, properties |-> properties, required |-> required]
                 ELSE IF param.name = ""
                 THEN AddParams(i + 1, properties, required)
                 ELSE IF param.in \notin {"query", "path"}
                 THEN AddParams(i + 1, properties, required)
                 ELSE AddParams(i + 1,
                                Put(properties, param.name,
                                    [type |-> _convert_openapi_type(param.type)]),
                                IF param.required THEN Append(required, param.name)
                                ELSE required)
        declared == AddParams(1, CredentialProperties, <<"host", "username", "password">>)
        withCollection ==
            Put(Put(Put(Put(declared.properties,
                "fields", [type |-> "string"]),
                "per_page", [type |-> "integer"]),
                "page", [type |-> "integer"]),
                "queryParams", [type |-> "object"])
    IN [raised |-> declared.raised,
        schema |-> [type |-> "object",
                    properties |-> IF is_collection_query THEN withCollection
                                   ELSE declared.properties,
                    required |-> declared.required,
                    additionalProperties |-> TRUE]]

\* ToolGenerator._generate_tool_from_operation: an operationId of <<>> is an
\* operation without the key (operation.get gives None).  ok is FALSE where the code
\* returns None; tool_names is the table the call leaves behind.  The
\* description is free text that no operation of the server reads back and is
\* left out of the descriptor.
_generate_tool_from_operation(tool_names, path, method, operation) ==
    LET base == IF operation.operationId # <<>> THEN operation.operationId
                ELSE _generate_tool_name_from_path(path, method)
        unique == _make_unique_name(tool_names, base, path)
        is_collection_query == EndsWith(path, CollectionSuffix)
        input == _generate_input_schema(operation, is_collection_query)
    IN [ok |-> ~input.raised,
        tool |-> [name |-> unique.name, inputSchema |-> input.schema],
        tool_names |-> unique.tool_names]

\* generate_tools that gives up at the first operation that fails
generate_tools_AbortOnFailure(g) ==
    LET paths == g.spec.paths
        methods == g.allowed_methods
        RECURSIVE Loop(_, _, _, _, _)
        Loop(i, j, acc, names, from) ==
            IF i > Len(paths)
            THEN [tools |-> acc, tool_names |-> names, origins |-> from]
            ELSE IF j > Len(methods) THEN Loop(i + 1, 1, acc, names, from)
            ELSE LET path == paths[i].path
                     path_item == paths[i].item
                     method == methods[j]
                 IN IF method \in DOMAIN path_item
                    THEN LET r == _generate_tool_from_operation(
                                      names, path, method, path_item[method])
                         IN IF r.ok
                            THEN Loop(i, j + 1, Append(acc, r.tool), r.tool_names,
                                      Append(from, [path |-> path, method |-> method]))
                            ELSE [tools |-> acc, tool_names |-> r.tool_names,
                                  origins |-> from]
                    ELSE Loop(i, j + 1, acc, names, from)
    IN Loop(1, 1, <<>>, g.tool_names, <<>>)

\* ToolGenerator.generate_tools on a generator g: the returned list, the
\* tool_names table afterwards, and the (path, method) of each returned
\* descriptor.
generate_tools(g) ==
    LET paths == g.spec.paths
        methods == g.allowed_methods
        RECURSIVE Loop(_, _, _, _, _)
        Loop(i, j, acc, names, from) ==
            IF i > Len(paths)
            THEN [tools |-> acc, tool_names |-> names, origins |-> from]
            ELSE IF j > Len(methods) THEN Loop(i + 1, 1, acc, names, from)
            ELSE LET path == paths[i].path
                     path_item == paths[i].item
                     method == methods[j]
                 IN IF method \in DOMAIN path_item
                    THEN LET r == _generate_tool_from_operation(
                                      names, path, method, path_item[method])
                         IN IF r.ok
                            THEN Loop(i, j + 1, Append(acc, r.tool), r.tool_names,
                                      Append(from, [path |-> path, method |-> method]))
                            ELSE Loop(i, j + 1, acc, r.tool_names, from)
                    ELSE Loop(i, j + 1, acc, names, from)
    IN Loop(1, 1, <<>>, g.tool_names, <<>>)

(***************************************************************************)
(* server.py: path resolution                                              *)
(***************************************************************************)
NoPath == [found |-> FALSE, path |-> <<>>]

\* UnityMCPServer._get_path_for_tool; generator is self.tool_generator, an
\* Optional kept as a sequence of length 0 (None) or 1.
_get_path_for_tool(generator, tool_name) ==
    IF generator = <<>> THEN NoPath
    ELSE
    LET paths == generator[1].spec.paths
        RECURSIVE First(_)
        First(i) ==
            IF i > Len(paths) THEN NoPath
            ELSE IF GET \in DOMAIN paths[i].item
                    /\ paths[i].item[GET].operationId # <<>>
                    /\ paths[i].item[GET].operationId = tool_name
                 THEN [found |-> TRUE, path |-> paths[i].path]
                 ELSE First(i + 1)
        RECURSIVE Second(_)
        Second(i) ==
            IF i > Len(paths) THEN NoPath
            ELSE IF GET \in DOMAIN paths[i].item
                 THEN LET operation_id == paths[i].item[GET].operationId
                          generated_name == _generate_tool_name_from_path(paths[i].path, GET)
                      IN IF operation_id # <<>>
                            /\ StartsWith(tool_name, operation_id \o <<"_">>)
                         THEN [found |-> TRUE, path |-> paths[i].path]
                         ELSE IF operation_id = <<>>
                                 /\ (tool_name = generated_name
                                     \/ StartsWith(tool_name, generated_name \o <<"_">>))
                         THEN [found |-> TRUE, path |-> paths[i].path]
                         ELSE Second(i + 1)
                 ELSE Second(i + 1)
        first == First(1)
    IN IF first.found THEN first ELSE Second(1)

(***************************************************************************)
(* server.py: arguments and parameter filtering.  A JSON value is a record *)
(* tagged with its type: None, a string, or a dict (a function from keys   *)
(* to values).                                                             *)
(***************************************************************************)
NoneVal == [t |-> "none", v |-> ""]
StrVal(s) == [t |-> "str", v |-> s]
DictVal(d) == [t |-> "dict", v |-> d]

EmptyDict == [k \in {} |-> NoneVal]

\* Python truthiness: "not value"
Falsy(value) ==
    \/ value.t = "none"
    \/ value.t = "str" /\ value.v = ""
    \/ value.t = "dict" /\ DOMAIN value.v = {}

\* dict.get(key) and dict.get(key, default)
GetOr(d, key, default) == IF key \in DOMAIN d THEN d[key] ELSE default
Get(d, key) == GetOr(d, key, NoneVal)

\* dict.update
Update(d, e) == [k \in DOMAIN d \cup DOMAIN e |-> IF k \in DOMAIN e THEN e[k] ELSE d[k]]

EXCLUDED_PARAMS ==
    {"host", "username", "password", "queryParams",
     "sessionId", "session_id", "action", "chatInput", "chat_input",
     "toolCallId", "tool_call_id", "tool", "toolName", "tool_name",
     "requestId", "request_id", "messageId", "message_id"}

\* UnityMCPServer._build_api_params(arguments), arguments a non-empty dict
_build_api_params(arguments) ==
    LET query_params == GetOr(arguments, "queryParams", DictVal(EmptyDict))
        direct == [key \in {k \in DOMAIN arguments :
                               k \notin EXCLUDED_PARAMS /\ arguments[k].t # "none"}
                     |-> arguments[key]]
    IN IF query_params.t = "dict" THEN Update(direct, query_params.v) ELSE direct

(***************************************************************************)
(* exceptions.py: an exception is a record of its class, its message and   *)
(* the attributes the dispatcher reads.  status_code 0 is None.            *)
(***************************************************************************)
UnityAPIErrorClasses ==
    {"UnityAPIError", "AuthenticationError", "ConnectionError", "APIResponseError",
     "RateLimitError"}

NoException ==
    [class |-> "None", message |-> "", status_code |-> 0, details |-> {},
     retry_after |-> <<>>, original_error |-> "None", missing_args |-> <<>>]

\* UnityAPIError.__init__: details always holds status_code and response_body
UnityAPIError(class, message, status_code, details) ==
    [NoException EXCEPT !.class = class, !.message = message,
                        !.status_code = status_code,
                        !.details = {"status_code", "response_body"} \cup details]

AuthenticationError ==
    UnityAPIError("AuthenticationError", "Authentication failed for host", 401,
                  {"host", "url", "method"})

\* RateLimitError(retry_after): retry_after is an Optional[int], <<>> for None
\* and <<n>> for n; "if retry_after" is false for None and for 0
RateLimitError(retry_after) ==
    [UnityAPIError("RateLimitError",
                   IF retry_after \in {<<>>, <<0>>} THEN "API rate limit exceeded"
                   ELSE "API rate limit exceeded. Retry after seconds.",
                   429, {"retry_after"})
        EXCEPT !.retry_after = retry_after]

APIResponseError(status_code) ==
    UnityAPIError("APIResponseError", "API request failed", status_code,
                  {"url", "method", "params"})

\* ConnectionError(host, original_error, message)
ConnectionError(original_error, message) ==
    [UnityAPIError("ConnectionError",
                   IF message = "" THEN "Failed to connect to Unity host" ELSE message,
                   0, {"host", "original_error"})
        EXCEPT !.original_error = original_error]

\* an exception that is not a UnityAPIError (ValueError, JSONDecodeError)
OtherException(class, message) ==
    [NoException EXCEPT !.class = class, !.message = message]

InvalidToolArgumentsError(missing_args, message) ==
    [NoException EXCEPT !.class = "InvalidToolArgumentsError",
                        !.message = IF message = "" THEN "Invalid arguments for tool"
                                    ELSE message,
                        !.missing_args = missing_args,
                        !.details = {"tool_name", "missing_args", "invalid_args"}]

ToolNotFoundError(message) ==
    [NoException EXCEPT !.class = "ToolNotFoundError",
                        !.message = IF message = "" THEN "Unknown tool" ELSE message,
                        !.details = {"tool_name"}]

(***************************************************************************)
(* api_client.py                                                           *)
(***************************************************************************)
\* a backoff that grows by two seconds per attempt
Pow2_Linear(n) == 2 * n

\* 2**attempt
RECURSIVE Pow2(_)
Pow2(n) == IF n = 0 THEN 1 ELSE 2 * Pow2(n - 1)

\* UnityAPIClient.__init__: raised is the ValueError of an empty credential.
\* client is the httpx.AsyncClient slot; opened, aclosed, requests and waits
\* record what the client did (clients created, aclose calls, HTTP requests
\* issued, backoff sleeps taken); attempt and last_error are the locals of
\* execute_operation.
UnityAPIClient(host, username, password, max_retries) ==
    [raised |-> host = "" \/ username = "" \/ password = "",
     host |-> host,
     max_retries |-> max_retries,
     client |-> "None",
     opened |-> 0,
     aclosed |-> 0,
     attempt |-> 0,
     last_error |-> "None",
     requests |-> 0,
     waits |-> <<>>]

\* UnityAPIClient._ensure_client
_ensure_client(self) ==
    IF self.client = "None"
    THEN [self EXCEPT !.client = "AsyncClient", !.opened = @ + 1]
    ELSE self

\* close that calls aclose and keeps the reference
close_KeepsClient(self) ==
    IF self.client # "None" THEN [self EXCEPT !.aclosed = @ + 1] ELSE self

\* UnityAPIClient.close (and __aexit__, which only calls it)
close(self) ==
    IF self.client # "None"
    THEN [self EXCEPT !.client = "None", !.aclosed = @ + 1]
    ELSE self

\* response.headers.get("Retry-After"): None or the header's text
NoHeader == [present |-> FALSE, text |-> <<>>]
Header(text) == [present |-> TRUE, text |-> text]

\* int(text) for a text without sign, blanks or underscores: the value of a
\* non-empty digit string, ValueError (ok FALSE) for anything else
RECURSIVE DigitsValue(_, _, _)
DigitsValue(text, i, acc) ==
    IF i > Len(text) THEN acc
    ELSE DigitsValue(text, i + 1, 10 * acc + (IndexOf(DigitChars, text[i]) - 1))

IntOf(text) ==
    IF text # <<>> /\ \A i \in DOMAIN text : text[i] \in Range(DigitChars)
    THEN [ok |-> TRUE, value |-> DigitsValue(text, 1, 0)]
    ELSE [ok |-> FALSE, value |-> 0]

\* the Retry-After headers a 429 response is given: none, an empty one,
\* seconds, zero seconds, and a text that is not a number
RetryAfterHeaders ==
    {NoHeader, Header(<<>>), Header(<<"6", "0">>), Header(<<"0">>),
     Header(<<"s", "o", "o", "n">>)}

\* What the remote end or the network does with one HTTP request: a response
\* (status, Retry-After header, body) or an httpx exception.
HttpResponse(status_code, retry_after, body) ==
    [kind |-> "response", status_code |-> status_code, retry_after |-> retry_after,
     body |-> body]

HttpxError(kind) ==
    [kind |-> kind, status_code |-> 0, retry_after |-> NoHeader, body |-> "empty"]

Responses ==
    {HttpResponse(200, NoHeader, b) : b \in {"empty", "entries", "other", "invalid"}}
    \cup {HttpResponse(204, NoHeader, "empty"), HttpResponse(401, NoHeader, "other")}
    \cup {HttpResponse(429, h, "other") : h \in RetryAfterHeaders}
    \cup {HttpResponse(404, NoHeader, "other"), HttpResponse(500, NoHeader, "empty")}
    \cup {HttpxError(k) : k \in {"ConnectError", "TimeoutException", "RequestError"}}

Returned(value) == [kind |-> "return", value |-> value, exception |-> NoException]
Raised(exception) == [kind |-> "raise", value |-> "", exception |-> exception]
Sleeping == [kind |-> "sleep", value |-> "", exception |-> NoException]
Pending == [kind |-> "pending", value |-> "", exception |-> NoException]

\* HandleResponse that retries a connection failure like a timeout
HandleResponse_RetryConnectErrors(self, r) ==
    IF r.kind = "response" THEN
        IF r.status_code = 401 THEN Raised(AuthenticationError)
        ELSE IF r.status_code = 429 THEN Raised(RateLimitError(<<>>))
        ELSE IF r.status_code >= 400 THEN Raised(APIResponseError(r.status_code))
        ELSE Returned("data")
    ELSE IF self.attempt < self.max_retries THEN Sleeping
    ELSE Pending

\* HandleResponse that treats a 5xx status as a transient failure
HandleResponse_RetryServerErrors(self, r) ==
    IF r.kind = "response" THEN
        IF r.status_code = 401 THEN Raised(AuthenticationError)
        ELSE IF r.status_code = 429 THEN Raised(RateLimitError(<<>>))
        ELSE IF r.status_code >= 500
        THEN (IF self.attempt < self.max_retries THEN Sleeping ELSE Pending)
        ELSE IF r.status_code >= 400 THEN Raised(APIResponseError(r.status_code))
        ELSE Returned("data")
    ELSE IF r.kind = "ConnectError" THEN Raised(ConnectionError(r.kind, ""))
    ELSE IF self.attempt < self.max_retries THEN Sleeping
    ELSE Pending

\* HandleResponse that returns the decoded body as it is, an envelope with
\* "entries" included
HandleResponse_NoUnwrap(self, r) ==
    IF r.kind = "response" THEN
        IF r.status_code = 401 THEN Raised(AuthenticationError)
        ELSE IF r.status_code = 429 THEN Raised(RateLimitError(<<>>))
        ELSE IF r.status_code >= 400 THEN Raised(APIResponseError(r.status_code))
        ELSE IF r.body = "empty" THEN Returned("{}")
        ELSE IF r.body = "invalid"
        THEN Raised(OtherException("JSONDecodeError", "Expecting value"))
        ELSE Returned("data")
    ELSE IF r.kind = "ConnectError" THEN Raised(ConnectionError(r.kind, ""))
    ELSE IF self.attempt < self.max_retries THEN Sleeping
    ELSE Pending

\* execute_operation, the body of one loop iteration after client.request
\* has answered r: the value returned, the exception raised, or "sleep" when
\* the iteration ends in asyncio.sleep, or "pending" when the loop is left
\* with no attempt remaining.
HandleResponse(self, r) ==
    IF r.kind = "response" THEN
        IF r.status_code = 401 THEN Raised(AuthenticationError)
        ELSE IF r.status_code = 429 THEN
            LET retry_after == r.retry_after IN
            IF ~retry_after.present \/ retry_after.text = <<>>
            THEN Raised(RateLimitError(<<>>))
            ELSE IF ~IntOf(retry_after.text).ok
            THEN Raised(OtherException("ValueError", "invalid literal for int()"))
            ELSE Raised(RateLimitError(<<IntOf(retry_after.text).value>>))
        ELSE IF r.status_code >= 400 THEN Raised(APIResponseError(r.status_code))
        ELSE IF r.body = "empty" THEN Returned("{}")
        ELSE IF r.body = "invalid"
        THEN Raised(OtherException("JSONDecodeError", "Expecting value"))
        ELSE IF r.body = "entries" THEN Returned("data[entries]")
        ELSE Returned("data")
    ELSE IF r.kind = "ConnectError" THEN Raised(ConnectionError(r.kind, ""))
    ELSE IF self.attempt < self.max_retries THEN Sleeping
    ELSE Pending

\* the statement after the loop: raise ConnectionError(host, last_error,
\* "Request failed after N attempts")
Exhausted(self) == Raised(ConnectionError(self.last_error, "Request failed after attempts"))

(***************************************************************************)
(* OpenAPI documents the generator is run on.                              *)
(***************************************************************************)
P_x == <<"/", "x">>
P_inst == <<"/", "x">> \o CollectionSuffix
P_inst_id == P_inst \o <<"/", "{", "i", "}">>
P_a_inst == <<"/", "a">> \o P_inst

PathPool == {P_x, P_inst, P_inst_id, P_a_inst}

OpId_q == <<"q">>

Param(name, in, required, type) ==
    [mapping |-> TRUE, name |-> name, in |-> in, required |-> required, type |-> type]

\* an entry of "parameters" that is not a mapping
NotAMapping == [mapping |-> FALSE, name |-> "", in |-> "", required |-> FALSE, type |-> ""]

SomeParameters ==
    <<Param("id", "path", TRUE, "string"),
      Param("compact", "query", FALSE, "boolean"),
      Param("body", "body", TRUE, "object"),
      Param("limit", "query", FALSE, "integer"),
      Param("page", "query", FALSE, "integer")>>

Operation(operationId, parameters) ==
    [operationId |-> operationId, parameters |-> parameters]

\* path items: GET with parameters and POST, both without operationId; GET
\* with operationId q; GET with operationId q whose parameters list holds a
\* non-mapping entry
ItemPool ==
    {(GET :> Operation(<<>>, SomeParameters)) @@ (POST :> Operation(<<>>, <<>>)),
     (GET :> Operation(OpId_q, <<>>)),
     (GET :> Operation(OpId_q, <<NotAMapping>>))}

PathEntries == [path : PathPool, item : ItemPool]

\* "paths" is a dict: its keys are distinct, its order is the insertion order
Documents ==
    {[paths |-> ps] : ps \in {q \in UNION {[1..n -> PathEntries] : n \in 0..MaxPaths} :
                                 \A i, j \in DOMAIN q : i # j => q[i].path # q[j].path}}

\* allowed_http_methods: None (the default), an explicit list, or a list
\* that names one method twice (ALLOWED_HTTP_METHODS="GET,get")
AllowedChoices ==
    {<<>>,
     << <<"G", "e", "t">>, <<"P", "O", "S", "T">> >>,
     << <<"G", "E", "T">>, <<"g", "e", "t">> >>}

NoResolved == [called |-> FALSE, name |-> <<>>, index |-> 0, result |-> NoPath]

UnknownTool == <<"n", "o", "T", "o", "o", "l">>

\* a name that no descriptor has and that starts with an operationId and "_"
PrefixedUnknownTool == OpId_q \o <<"_", "z">>

Calls == {1}

(***************************************************************************)
(* server.py: _execute_tool.  A call is at "idle", at "request" (awaiting  *)
(* client.request), at "sleep" (awaiting asyncio.sleep), or finished:      *)
(* "returned" with a CallToolResult or "raised" with an exception.         *)
(* constructed counts the UnityAPIClient objects the call created, op is   *)
(* how execute_operation ended, last_response is the last answer to an     *)
(* HTTP request of the call, responses the list of all of them, and        *)
(* transient_failures counts its attempts that ended in a timeout or       *)
(* another transient request error.                                        *)
(***************************************************************************)
NoClient == UnityAPIClient("-", "-", "-", 0)

NoResult ==
    [isError |-> FALSE,
     text |-> [error |-> "", message |-> "", tool |-> <<>>, status_code |-> 0,
               details |-> {}, payload |-> ""]]

IdleCall ==
    [pc |-> "idle", name |-> <<>>, arguments |-> NoneVal, exception |-> NoException,
     result |-> NoResult, path |-> <<>>, api_params |-> EmptyDict,
     constructed |-> 0, client |-> NoClient, op |-> Pending,
     last_response |-> HttpxError("None"), responses |-> <<>>,
     transient_failures |-> 0]

\* the success CallToolResult: text is json.dumps(result)
SuccessResult(name, value) ==
    [isError |-> FALSE, text |-> [NoResult.text EXCEPT !.payload = value]]

\* except UnityAPIError as e: status_code and details are added when truthy
APIErrorResult(name, e) ==
    [isError |-> TRUE,
     text |-> [error |-> e.class, message |-> e.message, tool |-> name,
               status_code |-> e.status_code, details |-> e.details, payload |-> ""]]

\* except Exception as e
UnexpectedErrorResult(name, e) ==
    [isError |-> TRUE,
     text |-> [error |-> e.class, message |-> e.message, tool |-> name,
               status_code |-> 0, details |-> {}, payload |-> ""]]

\* an exception leaves _execute_tool
RaiseOut(call, e) == [call EXCEPT !.pc = "raised", !.exception = e]

\* Complete without the "except Exception" handler
Complete_NoGenericHandler(call, outcome) ==
    IF outcome.kind = "raise" /\ outcome.exception.class \notin UnityAPIErrorClasses
    THEN [call EXCEPT !.pc = "raised", !.op = outcome, !.client = close(@),
                      !.exception = outcome.exception]
    ELSE [call EXCEPT
            !.pc = "returned",
            !.op = outcome,
            !.client = close(@),
            !.result = IF outcome.kind = "return"
                       THEN SuccessResult(call.name, outcome.value)
                       ELSE APIErrorResult(call.name, outcome.exception)]

\* the end of the try block: __aexit__ closes the client, then the value is
\* wrapped or the exception is caught by one of the two handlers
Complete(call, outcome) ==
    [call EXCEPT
        !.pc = "returned",
        !.op = outcome,
        !.client = close(@),
        !.result = IF outcome.kind = "return" THEN SuccessResult(call.name, outcome.value)
                   ELSE IF outcome.exception.class \in UnityAPIErrorClasses
                   THEN APIErrorResult(call.name, outcome.exception)
                   ELSE UnexpectedErrorResult(call.name, outcome.exception)]

\* NextAttempt with a loop that runs one iteration too many
NextAttempt_OneMore(call) ==
    IF call.client.attempt <= call.client.max_retries
    THEN [call EXCEPT !.pc = "request",
                      !.op = Pending,
                      !.client = [_ensure_client(@) EXCEPT !.attempt = @ + 1,
                                                           !.requests = @ + 1]]
    ELSE Complete(call, Exhausted(call.client))

\* NextAttempt with an attempt counter that all calls in flight share
NextAttempt_SharedAttempts(call) ==
    IF \A d \in DOMAIN calls : calls[d].client.attempt < call.client.max_retries
    THEN [call EXCEPT !.pc = "request",
                      !.op = Pending,
                      !.client = [_ensure_client(@) EXCEPT !.attempt = @ + 1,
                                                           !.requests = @ + 1]]
    ELSE Complete(call, Exhausted(call.client))

\* execute_operation: the next iteration of "for attempt in range(1,
\* max_retries + 1)" up to its await of client.request, or the raise after
\* the loop when no iteration is left
NextAttempt(call) ==
    IF call.client.attempt < call.client.max_retries
    THEN [call EXCEPT !.pc = "request",
                      !.op = Pending,
                      !.client = [_ensure_client(@) EXCEPT !.attempt = @ + 1,
                                                           !.requests = @ + 1]]
    ELSE Complete(call, Exhausted(call.client))

\* MissingCredentials stopping at the first missing credential
MissingCredentials_FirstOnly(arguments) ==
    IF Falsy(Get(arguments.v, "host")) THEN <<"host">>
    ELSE IF Falsy(Get(arguments.v, "username")) THEN <<"username">>
    ELSE IF Falsy(Get(arguments.v, "password")) THEN <<"password">>
    ELSE <<>>

\* the credential checks of _execute_tool: the names of the credentials that
\* are absent or empty, in the order host, username, password
MissingCredentials(arguments) ==
    LET host == Get(arguments.v, "host")
        username == Get(arguments.v, "username")
        password == Get(arguments.v, "password")
    IN (IF Falsy(host) THEN <<"host">> ELSE <<>>)
       \o (IF Falsy(username) THEN <<"username">> ELSE <<>>)
       \o (IF Falsy(password) THEN <<"password">> ELSE <<>>)

\* FindTool without the lookup in self.tools
FindTool_NoLookup(name) == TRUE

\* next((t for t in self.tools if t["name"] == name), None) found a tool
FindTool(name) == \E i \in DOMAIN tools : tools[i].name = name

\* str(value)
StrOf(value) == IF value.t = "str" THEN value.v ELSE "repr"

\* _execute_tool(name, arguments) from its entry to its first await on the
\* network (or to its end when it raises or returns before that)
ExecuteToolStart(name, arguments) ==
    LET call == [IdleCall EXCEPT !.name = name, !.arguments = arguments] IN
    IF Falsy(arguments)
    THEN RaiseOut(call, InvalidToolArgumentsError(<<"host", "username", "password">>, ""))
    ELSE
    LET host == Get(arguments.v, "host")
        username == Get(arguments.v, "username")
        password == Get(arguments.v, "password")
        missing_creds == MissingCredentials(arguments)
    IN
    IF missing_creds # <<>>
    THEN RaiseOut(call, InvalidToolArgumentsError(missing_creds,
                                                  "Missing required credentials"))
    ELSE IF ~FindTool(name)
    THEN RaiseOut(call, ToolNotFoundError(""))
    ELSE
    LET path == _get_path_for_tool(tool_generator, name) IN
    IF ~path.found \/ path.path = <<>>
    THEN RaiseOut(call, ToolNotFoundError("Could not determine API path for tool"))
    ELSE
    LET api_params == _build_api_params(arguments.v)
        client == UnityAPIClient(StrOf(host), StrOf(username), StrOf(password),
                                 config.max_retries)
        entered == [call EXCEPT !.path = path.path, !.api_params = api_params,
                                !.constructed = 1, !.client = client]
    IN IF client.raised
       THEN Complete([entered EXCEPT !.constructed = 0, !.client = NoClient],
                     Raised(OtherException("ValueError", "host is required")))
       ELSE NextAttempt(entered)

(***************************************************************************)
(* Inputs of the dispatcher.                                               *)
(***************************************************************************)
\* every combination of host, username and password being absent, empty or
\* given, with no other key
CredentialBags ==
    {DictVal([k \in {k \in {"host", "username", "password"} : f[k] # "absent"}
                 |-> StrVal(IF f[k] = "empty" THEN "" ELSE "c")]) :
        f \in [{"host", "username", "password"} -> {"absent", "empty", "given"}]}

CompleteCredentials ==
    [k \in {"host", "username", "password"} |-> StrVal("c")]

\* arguments with complete credentials and further keys
CompleteBags ==
    {DictVal(Update(CompleteCredentials, extra)) : extra \in
        {EmptyDict,
         [fields |-> StrVal("id,name"), unknownKey |-> StrVal("x"),
          queryParams |-> DictVal([filter |-> StrVal("severity eq 4")])],
         [fields |-> NoneVal, toolCallId |-> StrVal("abc-123")],
         [fields |-> StrVal("id"), queryParams |-> DictVal([fields |-> StrVal("name")])],
         [queryParams |-> DictVal([host |-> StrVal("evil"), queryParams |-> StrVal("x")])],
         [compact |-> StrVal("true"), queryParams |-> StrVal("filter")]}}

ArgumentBags ==
    {NoneVal, DictVal([fields |-> StrVal("id,name")])} \cup CredentialBags \cup CompleteBags

\* ServerMetrics.connection_opened / connection_closed on the counter
connection_opened(active_connections) == active_connections + 1

\* connection_closed without the max(0, ...)
connection_closed_Unclamped(active_connections) == active_connections - 1

connection_closed(active_connections) ==
    IF active_connections - 1 > 0 THEN active_connections - 1 ELSE 0

\* ServerMetrics.__init__
ServerMetrics == [requests_total |-> 0, errors_total |-> 0, active_connections |-> 0]

\* MCPHttpServer.__init__.  sse counts the _handle_sse calls in flight, ready
\* is the status of the last answer of /ready (0: none yet), startup the
\* last lifespan message sent; ready_requests, opens, closes and
\* direct_closes count the /ready requests, the connection_opened calls, the
\* connection_closed calls and those of them made on the metrics object
\* itself.
NoHttp ==
    [initialized |-> FALSE, metrics |-> ServerMetrics, sse |-> 0, ready |-> 0,
     ready_requests |-> 0, startup |-> "none", opens |-> 0, closes |-> 0,
     direct_closes |-> 0]

\* a UnityAPIClient on which health_check has not been called; result is the
\* value health_check returned (an Optional: <<>> while there is none)
NoProbe ==
    [pc |-> "idle", client |-> NoClient, op |-> Pending, result |-> <<>>,
     exception |-> NoException, last_response |-> HttpxError("None"),
     responses |-> <<>>]

\* a document whose "paths" value is a list, not a mapping
ListPaths == [paths |-> <<>>, paths_type |-> "list"]

\* spec.get("paths", {}).items() raises for this document
PathsNotAMapping(spec) == "paths_type" \in DOMAIN spec

Doc1 ==
    [paths |-> <<[path |-> P_inst, item |-> (GET :> Operation(OpId_q, <<>>))],
                 [path |-> P_inst_id, item |-> (GET :> Operation(<<>>, SomeParameters))],
                 [path |-> P_x, item |-> (GET :> Operation(<<>>, <<>>))
                                         @@ (POST :> Operation(<<>>, <<>>))]>>]

Doc2 ==
    [paths |-> <<[path |-> P_inst, item |-> (GET :> Operation(OpId_q, <<>>))],
                 [path |-> P_a_inst, item |-> (GET :> Operation(OpId_q, <<>>))]>>]

DispatchDocuments == {Doc1, Doc2}

\* allowed_http_methods of the server: the default or GET and POST
DispatchAllowedChoices == {<<>>, << <<"G", "e", "t">>, <<"P", "O", "S", "T">> >>}

\* the names a caller may ask for: those of the document's descriptors and one
\* that no descriptor has
CallableNames ==
    Range(Names(generate_tools(ToolGenerator(document, config.allowed_http_methods)).tools))
    \cup {UnknownTool, PrefixedUnknownTool}

(***************************************************************************)
(* Spec: the server, its initialization and its tool calls.                *)
(***************************************************************************)
Init ==
    /\ document \in DispatchDocuments
    /\ config \in [allowed_http_methods : DispatchAllowedChoices,
                    max_retries : 0..MaxRetriesCfg]
    /\ tool_generator = <<>>
    /\ tools = <<>>
    /\ initialized = FALSE
    /\ runs = <<>>
    /\ origins = <<>>
    /\ resolved = NoResolved
    /\ calls = [c \in Calls |-> IdleCall]
    /\ init_calls = 0
    /\ loads = 0
    /\ http = NoHttp
    /\ probe = NoProbe

\* initialize without the "if self._initialized: return" guard
Initialize_Regenerate ==
    /\ init_calls < MaxInitCalls
    /\ init_calls' = init_calls + 1
    /\ loads' = loads + 1
    /\ \E g \in {ToolGenerator(document, config.allowed_http_methods)} :
       \E r \in {generate_tools(g)} :
          /\ tool_generator' = <<[g EXCEPT !.tool_names = r.tool_names]>>
          /\ tools' = r.tools
          /\ initialized' = TRUE
          /\ runs' = Append(runs, r.tools)
          /\ origins' = r.origins
          /\ UNCHANGED <<config, document, resolved, calls, http, probe>>

\* UnityMCPServer.initialize: a no-op once initialized; otherwise
\* load_openapi_spec either raises (the file is missing or unreadable, so
\* initialize raises OpenAPILoadError and nothing is assigned) or returns the
\* document, from which the generator and the tools are built.  When the
\* document's "paths" is not a mapping, generate_tools raises AttributeError
\* after self.tool_generator has been assigned and before self.tools is.
UnityMCPServer_initialize ==
    /\ init_calls < MaxInitCalls
    /\ init_calls' = init_calls + 1
    /\ IF initialized
       THEN UNCHANGED <<config, document, tool_generator, tools, initialized, runs,
                        origins, resolved, calls, loads>>
       ELSE /\ loads' = loads + 1
            /\ \E loaded \in BOOLEAN :
                IF ~loaded
                THEN UNCHANGED <<config, document, tool_generator, tools, initialized,
                                 runs, origins, resolved, calls>>
                ELSE IF PathsNotAMapping(document)
                THEN /\ tool_generator' =
                            <<ToolGenerator(document, config.allowed_http_methods)>>
                     /\ UNCHANGED <<config, document, tools, initialized, runs,
                                    origins, resolved, calls>>
                ELSE \E g \in {ToolGenerator(document, config.allowed_http_methods)} :
                     \E r \in {generate_tools(g)} :
                        /\ tool_generator' = <<[g EXCEPT !.tool_names = r.tool_names]>>
                        /\ tools' = r.tools
                        /\ initialized' = TRUE
                        /\ runs' = Append(runs, r.tools)
                        /\ origins' = r.origins
                        /\ UNCHANGED <<config, document, resolved, calls>>

\* server.initialize() called on the UnityMCPServer itself
Initialize == UnityMCPServer_initialize /\ UNCHANGED <<http, probe>>

\* handle_call_tool(name, arguments): _execute_tool runs to its first await
CallBegin(c) ==
    /\ calls[c].pc = "idle"
    /\ \E name \in CallableNames, arguments \in ArgumentBags :
        calls' = [calls EXCEPT ![c] = ExecuteToolStart(name, arguments)]
    /\ UNCHANGED <<http, probe, init_calls, loads, config, document, tool_generator, tools, initialized, runs,
                   origins, resolved>>

\* execute_operation from the answer r of client.request to the next await
\* (asyncio.sleep) or to the end of _execute_tool
OnResponse(waiting, r) ==
    LET call == [waiting EXCEPT
                    !.last_response = r,
                    !.responses = Append(@, r),
                    !.transient_failures =
                        IF r.kind \in {"TimeoutException", "RequestError"}
                        THEN @ + 1 ELSE @,
                    !.client.last_error =
                        IF r.kind \in {"TimeoutException", "RequestError"}
                        THEN r.kind ELSE @]
        o == HandleResponse(call.client, r)
    IN CASE o.kind = "sleep" ->
                [call EXCEPT !.pc = "sleep", !.op = Sleeping,
                             !.client.waits = Append(@, Pow2(call.client.attempt))]
         [] o.kind = "pending" -> Complete(call, Exhausted(call.client))
         [] OTHER -> Complete(call, o)

\* client.request answers: the rest of the loop iteration
Respond(c) ==
    /\ calls[c].pc = "request"
    /\ \E r \in Responses : calls' = [calls EXCEPT ![c] = OnResponse(calls[c], r)]
    /\ UNCHANGED <<http, probe, init_calls, loads, config, document, tool_generator, tools, initialized, runs,
                   origins, resolved>>

\* asyncio.sleep(wait_time) is over: the loop goes on
Wake(c) ==
    /\ calls[c].pc = "sleep"
    /\ calls' = [calls EXCEPT ![c] = NextAttempt(calls[c])]
    /\ UNCHANGED <<http, probe, init_calls, loads, config, document, tool_generator, tools, initialized, runs,
                   origins, resolved>>

\* the caller has taken the result or the exception: the call is over
CallEnd(c) ==
    /\ calls[c].pc \in {"returned", "raised"}
    /\ calls' = [calls EXCEPT ![c] = IdleCall]
    /\ UNCHANGED <<http, probe, init_calls, loads, config, document, tool_generator, tools, initialized, runs,
                   origins, resolved>>

Next ==
    \/ Initialize
    \/ \E c \in DOMAIN calls : CallBegin(c)
    \/ \E c \in DOMAIN calls : Respond(c)
    \/ \E c \in DOMAIN calls : Wake(c)
    \/ \E c \in DOMAIN calls : CallEnd(c)

Spec == Init /\ [][Next]_vars

(***************************************************************************)
(* SpecConc: an initialized server that serves two tool calls at a time.   *)
(* The calls interleave at their awaits (client.request, asyncio.sleep).   *)
(***************************************************************************)
MaxConcRetries == 2   \* max_retries of the server with two calls in flight

ConcurrentCalls == {1, 2}

\* names and arguments of the concurrent calls: a resolvable tool and an
\* unknown one; complete credentials with and without parameters, and a bag
\* that lacks credentials
ConcurrentNames == {OpId_q, UnknownTool}

ConcurrentBags ==
    {DictVal(CompleteCredentials),
     DictVal(Update(CompleteCredentials,
                    [fields |-> StrVal("id"),
                     queryParams |-> DictVal([filter |-> StrVal("severity eq 4")])])),
     DictVal([host |-> StrVal("c")])}

InitConc ==
    /\ document = Doc1
    /\ config = [allowed_http_methods |-> <<>>, max_retries |-> MaxConcRetries]
    /\ \E g \in {ToolGenerator(document, config.allowed_http_methods)} :
       \E r \in {generate_tools(g)} :
          /\ tool_generator = <<[g EXCEPT !.tool_names = r.tool_names]>>
          /\ tools = r.tools
          /\ runs = <<r.tools>>
          /\ origins = r.origins
    /\ initialized = TRUE
    /\ resolved = NoResolved
    /\ calls = [c \in ConcurrentCalls |-> IdleCall]
    /\ init_calls = 1
    /\ loads = 1
    /\ http = NoHttp
    /\ probe = NoProbe

\* handle_call_tool(name, arguments) while other calls may be in flight
ConcCallBegin(c) ==
    /\ calls[c].pc = "idle"
    /\ \E name \in ConcurrentNames, arguments \in ConcurrentBags :
        calls' = [calls EXCEPT ![c] = ExecuteToolStart(name, arguments)]
    /\ UNCHANGED <<http, probe, init_calls, loads, config, document, tool_generator, tools, initialized, runs,
                   origins, resolved>>

NextConc ==
    \/ Initialize
    \/ \E c \in DOMAIN calls : ConcCallBegin(c)
    \/ \E c \in DOMAIN calls : Respond(c)
    \/ \E c \in DOMAIN calls : Wake(c)
    \/ \E c \in DOMAIN calls : CallEnd(c)

SpecConc == InitConc /\ [][NextConc]_vars

(***************************************************************************)
(* SpecGen: one ToolGenerator, its generate_tools calls and the path       *)
(* resolution of the names it produced.                                    *)
(***************************************************************************)
InitGen ==
    /\ document \in Documents
    /\ config \in [allowed_http_methods : AllowedChoices, max_retries : {3}]
    /\ tool_generator = <<ToolGenerator(document, config.allowed_http_methods)>>
    /\ tools = <<>>
    /\ initialized = FALSE
    /\ runs = <<>>
    /\ origins = <<>>
    /\ resolved = NoResolved
    /\ calls = [c \in Calls |-> IdleCall]
    /\ init_calls = 0
    /\ loads = 0
    /\ http = NoHttp
    /\ probe = NoProbe

\* tools = generator.generate_tools()
GenGenerateTools ==
    /\ Len(runs) < MaxRuns
    /\ \E r \in {generate_tools(tool_generator[1])} :
        /\ tools' = r.tools
        /\ tool_generator' = <<[tool_generator[1] EXCEPT !.tool_names = r.tool_names]>>
        /\ runs' = Append(runs, r.tools)
        /\ origins' = r.origins
    /\ resolved' = NoResolved
    /\ UNCHANGED <<http, probe, init_calls, loads, config, document, initialized, calls>>

\* server._get_path_for_tool(name) for the name of a generated descriptor or
\* for a name that no descriptor has; one resolution is recorded per run
GenResolvePath ==
    /\ runs # <<>>
    /\ ~resolved.called
    /\ \E i \in 0..Len(tools) :
        LET name == IF i = 0 THEN UnknownTool ELSE tools[i].name IN
        resolved' = [called |-> TRUE, name |-> name, index |-> i,
                     result |-> _get_path_for_tool(tool_generator, name)]
    /\ UNCHANGED <<http, probe, init_calls, loads, config, document, tool_generator, tools, initialized, runs,
                   origins, calls>>

NextGen == GenGenerateTools \/ GenResolvePath

SpecGen == InitGen /\ [][NextGen]_vars

\* C1: the descriptors returned by one generate_tools run on a fresh
\* ToolGenerator have pairwise distinct names.
C1_UniqueNames ==
    Len(runs) >= 1 => PairwiseDistinct(Names(runs[1]))

GetOnly == config.allowed_http_methods = <<>>

\* C6: for every descriptor of a generate_tools run with the default GET-only
\* method set, _get_path_for_tool(name) returns the path of the operation the
\* descriptor was generated from.
C6_ResolvesOwnPath ==
    (GetOnly /\ Len(runs) = 1 /\ resolved.called /\ resolved.index >= 1)
        => /\ resolved.result.found
           /\ resolved.result.path = origins[resolved.index].path

\* C7: a second generate_tools call on the same ToolGenerator returns the
\* same descriptor list as the first.
C7_SecondRunIdentical ==
    Len(runs) >= 2 => runs[2] = runs[1]

(***************************************************************************)
(* Claims about the dispatcher and the API client, checked under Spec.     *)
(***************************************************************************)
Credentials == {"host", "username", "password"}

\* the call has built its parameter set
BuiltParams(c) == calls[c].constructed = 1

\* the first descriptor with the call's name
ToolOf(c) ==
    tools[CHOOSE i \in DOMAIN tools :
            /\ tools[i].name = calls[c].name
            /\ \A j \in 1..(i - 1) : tools[j].name # calls[c].name]

QueryParamKeys(arguments) ==
    IF "queryParams" \in DOMAIN arguments /\ arguments["queryParams"].t = "dict"
    THEN DOMAIN arguments["queryParams"].v ELSE {}

\* C2: the parameter set built by the dispatcher contains only keys declared
\* in the tool's own inputSchema properties (minus credentials) plus the keys
\* merged from queryParams.
C2_OnlyDeclaredKeys ==
    \A c \in Calls :
        BuiltParams(c) =>
            DOMAIN calls[c].api_params \subseteq
                (DOMAIN ToolOf(c).inputSchema.properties \ Credentials)
                \cup QueryParamKeys(calls[c].arguments.v)

\* C3: once credential validation and tool/path resolution have passed, no
\* error of the client is raised out of _execute_tool: the call returns a
\* result with isError true whose text carries the error's class name, its
\* message and, when the error has one, its status code.
C3_ErrorsAreReturned ==
    \A c \in Calls :
        /\ calls[c].pc = "raised" =>
              /\ calls[c].constructed = 0
              /\ calls[c].exception.class \in
                    {"InvalidToolArgumentsError", "ToolNotFoundError"}
        /\ (calls[c].pc = "returned" /\ calls[c].op.kind = "raise") =>
              /\ calls[c].result.isError
              /\ calls[c].result.text.error = calls[c].op.exception.class
              /\ calls[c].result.text.message = calls[c].op.exception.message
              /\ calls[c].op.exception.status_code # 0 =>
                    calls[c].result.text.status_code = calls[c].op.exception.status_code

C3_Witness ==
    \E c \in Calls :
        /\ calls[c].pc = "returned"
        /\ calls[c].last_response.status_code = 429
        /\ calls[c].result.isError
        /\ calls[c].result.text.error = "ValueError"

\* the credentials a bag of arguments lacks, in the order host, username,
\* password
LacksCredential(arguments, k) ==
    \/ arguments.t # "dict"
    \/ k \notin DOMAIN arguments.v
    \/ arguments.v[k].t = "none"
    \/ arguments.v[k].t = "str" /\ arguments.v[k].v = ""

Lacking(arguments) ==
    LET Lacks(k) == LacksCredential(arguments, k)
    IN SelectSeq(<<"host", "username", "password">>, Lacks)

\* C4: when arguments is absent or empty, or a credential is absent or empty,
\* _execute_tool raises InvalidToolArgumentsError whose missing_args is
\* exactly the list of the missing credentials in the order host, username,
\* password; it returns no result.
C4_MissingCredentials ==
    \A c \in Calls :
        (calls[c].pc # "idle" /\ Lacking(calls[c].arguments) # <<>>) =>
            /\ calls[c].pc = "raised"
            /\ calls[c].exception.class = "InvalidToolArgumentsError"
            /\ calls[c].exception.missing_args = Lacking(calls[c].arguments)

C4_Witness ==
    \E c \in Calls :
        /\ calls[c].pc = "raised"
        /\ calls[c].arguments.t = "dict"
        /\ DOMAIN calls[c].arguments.v = {"host"}
        /\ ~Falsy(calls[c].arguments.v["host"])
        /\ calls[c].exception.missing_args = <<"username", "password">>

\* C5: with complete credentials, _execute_tool raises ToolNotFoundError when
\* the name is not in the descriptor list, and also when the name is in the
\* list and no path of the spec resolves for it; it returns no result.
C5_ToolNotFound ==
    \A c \in Calls :
        (/\ calls[c].pc # "idle"
         /\ Lacking(calls[c].arguments) = <<>>
         /\ \/ calls[c].name \notin Range(Names(tools))
            \/ ~_get_path_for_tool(tool_generator, calls[c].name).found) =>
            /\ calls[c].pc = "raised"
            /\ calls[c].exception.class = "ToolNotFoundError"

\* a descriptor generated from a POST operation: in the list, no path resolves
C5_Witness ==
    \E c \in Calls :
        /\ calls[c].pc = "raised"
        /\ calls[c].exception.class = "ToolNotFoundError"
        /\ calls[c].exception.message = "Could not determine API path for tool"
        /\ calls[c].name \in Range(Names(tools))
        /\ ~_get_path_for_tool(tool_generator, calls[c].name).found
        /\ Lacking(calls[c].arguments) = <<>>

\* C8: a call that reaches the remote-call step constructs exactly one
\* UnityAPIClient, and when the call returns, with a success or a failure
\* result, that client is closed: every HTTP client it opened has been
\* released with aclose and its reference is None.
C8_ClientClosed ==
    \A c \in Calls :
        /\ calls[c].pc \in {"request", "sleep"} => calls[c].constructed = 1
        /\ calls[c].pc \in {"idle", "raised"} => calls[c].constructed = 0
        /\ calls[c].constructed <= 1
        /\ calls[c].client.opened <= 1
        /\ calls[c].pc = "returned" =>
              /\ calls[c].client.client = "None"
              /\ calls[c].client.aclosed = calls[c].client.opened

C8_Witness ==
    \E c \in Calls :
        /\ calls[c].pc = "returned"
        /\ calls[c].result.isError
        /\ calls[c].client.opened = 1
        /\ calls[c].client.aclosed = 1
        /\ calls[c].client.client = "None"

Transient == {"TimeoutException", "RequestError"}

\* C9: when every attempt fails with a timeout or another transient request
\* error, execute_operation issues exactly max_retries requests and raises
\* ConnectionError wrapping the last transient exception; a success or a
\* non-transient outcome at attempt k ends the loop at k; the requests of one
\* call never exceed max_retries.
C9_RetryBudget ==
    \A c \in Calls :
        LET call == calls[c] IN
        /\ call.client.requests <= call.client.max_retries
        /\ (call.pc = "returned" /\ call.constructed = 1
            /\ call.transient_failures = call.client.requests) =>
              /\ call.client.requests = call.client.max_retries
              /\ call.op.kind = "raise"
              /\ call.op.exception.class = "ConnectionError"
              /\ call.client.requests >= 1 =>
                    /\ call.last_response.kind \in Transient
                    /\ call.op.exception.original_error = call.last_response.kind
        /\ (call.pc # "idle" /\ call.last_response.kind \in {"response", "ConnectError"}) =>
              /\ call.pc = "returned"
              /\ call.client.requests = call.transient_failures + 1
              /\ call.client.attempt = call.client.requests

C9_Witness ==
    \E c \in Calls :
        /\ calls[c].pc = "returned"
        /\ calls[c].client.max_retries >= 2
        /\ calls[c].client.requests = calls[c].client.max_retries
        /\ calls[c].transient_failures = calls[c].client.requests
        /\ calls[c].op.exception.class = "ConnectionError"
        /\ calls[c].op.exception.original_error = "RequestError"

\* C10: on a 401 response execute_operation raises AuthenticationError, on
\* any other status >= 400 except 429 APIResponseError carrying the status
\* code, and the request that got the error status is the last of the call:
\* an HTTP error status is never retried, whatever max_retries is.
C10_StatusErrorsNotRetried ==
    \A c \in Calls :
        LET call == calls[c]
            r == call.last_response
        IN (call.pc # "idle" /\ r.kind = "response" /\ r.status_code >= 400
            /\ r.status_code # 429) =>
              /\ call.pc = "returned"
              /\ call.op.kind = "raise"
              /\ call.client.requests = call.transient_failures + 1
              /\ IF r.status_code = 401
                 THEN /\ call.op.exception.class = "AuthenticationError"
                      /\ call.op.exception.status_code = 401
                 ELSE /\ call.op.exception.class = "APIResponseError"
                      /\ call.op.exception.status_code = r.status_code

C10_Witness ==
    \E c \in Calls :
        /\ calls[c].pc = "returned"
        /\ calls[c].client.max_retries >= 2
        /\ calls[c].client.requests = 1
        /\ calls[c].last_response.status_code = 500
        /\ calls[c].op.exception.class = "APIResponseError"
        /\ calls[c].op.exception.status_code = 500

\* C11: on every 429 response, whether the Retry-After header is absent, an
\* integer or any other text, execute_operation raises RateLimitError, whose
\* retry_after is the header's integer value when it has one and None when
\* the header is absent.
C11_RateLimitError ==
    \A c \in Calls :
        LET call == calls[c]
            r == call.last_response
        IN (call.pc # "idle" /\ r.kind = "response" /\ r.status_code = 429) =>
              /\ call.pc = "returned"
              /\ call.op.kind = "raise"
              /\ call.op.exception.class = "RateLimitError"
              /\ ~r.retry_after.present => call.op.exception.retry_after = <<>>
              /\ (r.retry_after.present /\ IntOf(r.retry_after.text).ok) =>
                    call.op.exception.retry_after = <<IntOf(r.retry_after.text).value>>

\* C12: a connection failure (httpx.ConnectError) on any attempt ends
\* execute_operation at once with ConnectionError wrapping it: the failed
\* request is the last request of the call and no backoff sleep follows it,
\* whatever max_retries is.
C12_ConnectErrorImmediate ==
    \A c \in Calls :
        LET call == calls[c] IN
        (call.pc # "idle" /\ call.last_response.kind = "ConnectError") =>
            /\ call.pc = "returned"
            /\ call.op.kind = "raise"
            /\ call.op.exception.class = "ConnectionError"
            /\ call.op.exception.original_error = "ConnectError"
            /\ call.client.requests = call.transient_failures + 1
            /\ Len(call.client.waits) = call.transient_failures

\* a connection failure at the second of four attempts
C12_Witness ==
    \E c \in Calls :
        /\ calls[c].pc = "returned"
        /\ calls[c].last_response.kind = "ConnectError"
        /\ calls[c].client.max_retries = 4
        /\ calls[c].client.requests = 2
        /\ calls[c].client.waits = <<2>>
        /\ calls[c].op.exception.class = "ConnectionError"
        /\ calls[c].result.isError

\* C13: within one execute_operation call the k-th backoff sleep lasts 2^k
\* seconds and follows the transient failure of attempt k; attempt k+1 is
\* issued only when k sleeps are over, so the attempts of a call never
\* overlap; the waits are strictly increasing; no sleep follows the final
\* attempt.
C13_SequentialBackoff ==
    \A c \in Calls :
        LET call == calls[c]
            waits == call.client.waits
        IN /\ \A k \in DOMAIN waits : waits[k] = 2^k
           /\ \A k \in DOMAIN waits : k > 1 => waits[k] > waits[k - 1]
           /\ Len(waits) = 0 \/ Len(waits) < call.client.max_retries
           /\ call.pc = "request" =>
                 /\ call.client.requests = Len(waits) + 1
                 /\ call.transient_failures = Len(waits)
           /\ call.pc = "sleep" =>
                 /\ call.client.requests = Len(waits)
                 /\ call.transient_failures = Len(waits)
                 /\ call.last_response.kind \in Transient
           /\ (call.pc = "returned" /\ call.client.requests >= 1) =>
                 Len(waits) = call.client.requests - 1

\* four attempts that all failed transiently: three sleeps, none after the last
C13_Witness ==
    \E c \in Calls :
        /\ calls[c].pc = "returned"
        /\ calls[c].client.max_retries = 4
        /\ calls[c].client.requests = 4
        /\ calls[c].transient_failures = 4
        /\ calls[c].client.waits = <<2, 4, 8>>

\* C14: in every _execute_tool call an API client is constructed and an HTTP
\* request is issued only after the credentials were validated, the tool was
\* found in the descriptor list, its path was resolved and the parameters
\* were filtered; a call that raises a protocol-level error has constructed
\* no client and issued no request; a result is wrapped only after the
\* client was used; an initialize call changes no call: it constructs no
\* client and issues no request.
C14_StepOrder ==
    /\ [](\A c \in DOMAIN calls :
            LET call == calls[c]
                path == _get_path_for_tool(tool_generator, call.name)
            IN /\ (call.constructed >= 1 \/ call.client.opened >= 1
                                        \/ call.client.requests >= 1) =>
                     /\ call.constructed = 1
                     /\ Lacking(call.arguments) = <<>>
                     /\ call.name \in Range(Names(tools))
                     /\ path.found
                     /\ call.path = path.path
                     /\ call.api_params = _build_api_params(call.arguments.v)
               /\ call.pc = "raised" =>
                     /\ call.constructed = 0
                     /\ call.client.opened = 0
                     /\ call.client.requests = 0
                     /\ call.responses = <<>>
               /\ (call.pc = "returned" /\ call.op.kind = "return") =>
                     /\ call.client.requests >= 1
                     /\ Len(call.responses) = call.client.requests)
    /\ [][init_calls' # init_calls => calls' = calls]_vars

\* a call that returned a payload at its second request, after initialize
C14_Witness ==
    \E c \in DOMAIN calls :
        /\ init_calls >= 1
        /\ calls[c].pc = "returned"
        /\ ~calls[c].result.isError
        /\ calls[c].constructed = 1
        /\ calls[c].client.requests = 2
        /\ calls[c].api_params # EmptyDict

\* C16: after a successful initialize every further initialize call is a
\* no-op: the spec is not loaded again, no descriptor list is generated, and
\* tools, the generator and is_initialized stay as they are; one server
\* generates its descriptor list at most once.
C16_InitializeOnce ==
    /\ [](/\ Len(runs) <= 1
          /\ loads <= init_calls
          /\ initialized => /\ Len(runs) = 1
                            /\ tools = runs[1]
                            /\ tool_generator # <<>>)
    /\ [][initialized => /\ initialized'
                         /\ tools' = tools
                         /\ tool_generator' = tool_generator
                         /\ runs' = runs
                         /\ loads' = loads
                         /\ document' = document]_vars

\* a successful initialize and one more initialize call
C16_Witness ==
    /\ initialized
    /\ init_calls = 2
    /\ loads = 1
    /\ Len(runs) = 1
    /\ tools # <<>>

\* _execute_tool(name, arguments) served alone and answered rs, up to the
\* await that follows the last answer or to its end
RECURSIVE AloneFrom(_, _, _)
AloneFrom(call, rs, i) ==
    IF i > Len(rs) \/ call.pc # "request" THEN call
    ELSE LET after == OnResponse(call, rs[i])
         IN IF after.pc = "sleep" /\ i < Len(rs)
            THEN AloneFrom(NextAttempt(after), rs, i + 1)
            ELSE AloneFrom(after, rs, i + 1)

Alone(name, arguments, rs) == AloneFrom(ExecuteToolStart(name, arguments), rs, 1)

\* C15: with any number of _execute_tool calls interleaved at their awaits
\* and with any outcomes, no step changes the descriptor list, the spec or
\* the generator's name table, and each call is where the same call served
\* alone would be: its state and its outcome are determined by its own
\* name, its own arguments and the answers to its own requests.
C15_CallsIndependent ==
    /\ [](\A c \in DOMAIN calls :
            LET call == calls[c]
                alone == Alone(call.name, call.arguments, call.responses)
            IN call.pc # "idle" =>
                  \/ call = alone
                  \/ /\ alone.pc = "sleep"
                     /\ call = NextAttempt(alone))
    /\ [][/\ tools' = tools
          /\ document' = document
          /\ tool_generator' = tool_generator]_vars

\* two calls of the same tool with the same arguments in flight at once: one
\* has returned an error result, the other is at its second request
C15_Witness ==
    /\ calls[1].pc = "returned"
    /\ calls[1].result.isError
    /\ calls[1].last_response.status_code = 401
    /\ calls[2].pc = "request"
    /\ calls[2].client.attempt = 2
    /\ calls[2].name = calls[1].name
    /\ calls[2].arguments = calls[1].arguments

(***************************************************************************)
(* Claims about the generated descriptors, checked under SpecGen.  tools   *)
(* is the list of the last generate_tools run and origins[i] the (path,    *)
(* method) pair tools[i] was generated from.                               *)
(***************************************************************************)
\* the operation of the document that descriptor i was generated from
OperationOf(i) ==
    LET entry == CHOOSE e \in Range(document.paths) : e.path = origins[i].path
    IN entry.item[origins[i].method]

\* the path and query parameters an operation declares with a name
DeclaredParams(operation) ==
    {p \in Range(operation.parameters) :
        p.mapping /\ p.name # "" /\ p.in \in {"query", "path"}}

\* the statement of C17 read literally: required holds host, username,
\* password and every parameter of the operation, wherever it is sent, that
\* the spec marks required
C17_EveryMarkedParameter ==
    \A i \in DOMAIN tools :
        Range(tools[i].inputSchema.required) =
            Credentials \cup {p.name : p \in {q \in Range(OperationOf(i).parameters) :
                                                q.required}}

\* C17: for every generated tool, inputSchema.required holds exactly host,
\* username, password and every path or query parameter that the operation
\* marks required; a parameter the spec leaves optional is never in it.
C17_RequiredList ==
    \A i \in DOMAIN tools :
        LET declared == DeclaredParams(OperationOf(i))
            required == Range(tools[i].inputSchema.required)
        IN /\ required = Credentials \cup {p.name : p \in {q \in declared : q.required}}
           /\ \A p \in declared : ~p.required => p.name \notin required

\* a descriptor of an operation with a required path parameter, optional
\* query parameters and a required body parameter
C17_Witness ==
    \E i \in DOMAIN tools :
        /\ tools[i].inputSchema.required = <<"host", "username", "password", "id">>
        /\ "compact" \in DOMAIN tools[i].inputSchema.properties
        /\ \E p \in Range(OperationOf(i).parameters) : p.in = "body" /\ p.required

\* the four properties added for a collection query
InjectedProperties ==
    [fields |-> [type |-> "string"], per_page |-> [type |-> "integer"],
     page |-> [type |-> "integer"], queryParams |-> [type |-> "object"]]

\* the last segment of the path is "instances"
CollectionPath(path) ==
    LET parts == Split(path, "/")
    IN Len(parts) >= 2 /\ parts[Len(parts)] = Tail(CollectionSuffix)

\* C18: the schema of a generated tool carries the four injected properties
\* fields, per_page, page and queryParams if and only if its path ends with
\* /instances; for any other path the properties are the credentials and
\* the declared parameters only, so one of the four names appears there only
\* as a parameter the operation itself declares.
C18_CollectionProperties ==
    \A i \in DOMAIN tools :
        LET properties == tools[i].inputSchema.properties
            declared == {p.name : p \in DeclaredParams(OperationOf(i))}
        IN IF CollectionPath(origins[i].path)
           THEN /\ \A k \in DOMAIN InjectedProperties :
                      k \in DOMAIN properties /\ properties[k] = InjectedProperties[k]
                /\ DOMAIN properties =
                      Credentials \cup declared \cup DOMAIN InjectedProperties
           ELSE /\ DOMAIN properties = Credentials \cup declared
                /\ \A k \in DOMAIN properties \cap {"per_page", "page"} :
                      properties[k] # InjectedProperties[k]

\* one run with a collection tool and with a tool of a path that has a
\* further segment after /instances and declares a parameter named page
C18_Witness ==
    \E i, j \in DOMAIN tools :
        /\ origins[i].path = P_inst
        /\ tools[i].inputSchema.properties["page"].type = "integer"
        /\ origins[j].path = P_inst_id
        /\ "page" \in DOMAIN tools[j].inputSchema.properties
        /\ tools[j].inputSchema.properties["page"].type = "number"
        /\ "queryParams" \notin DOMAIN tools[j].inputSchema.properties

\* the methods the configuration allows, lower-cased
AllowedMethodSet ==
    IF config.allowed_http_methods = <<>> THEN {GET}
    ELSE {Lower(m) : m \in Range(config.allowed_http_methods)}

\* the (path, method) pairs of the document whose method is allowed
AllowedPairs ==
    UNION {{<<e.path, m>> : m \in {k \in DOMAIN e.item : Lower(k) \in AllowedMethodSet}} :
              e \in Range(document.paths)}

\* C19: every descriptor of a generate_tools run comes from a (path, method)
\* pair whose method is, case-insensitively, one of the allowed methods, and
\* the run returns no more descriptors than the spec has allowed pairs.
C19_OnlyAllowedMethods ==
    /\ \A i \in DOMAIN origins : Lower(origins[i].method) \in AllowedMethodSet
    /\ Len(tools) <= Cardinality(AllowedPairs)

\* building the descriptor of this operation raises
Fails(operation) == \E p \in Range(operation.parameters) : ~p.mapping

\* how often x occurs in the list seq
Count(seq, x) == Cardinality({i \in DOMAIN seq : seq[i] = x})

\* the allowed_methods list of the generator as the configuration gives it
AllowedMethodList ==
    IF config.allowed_http_methods = <<>> THEN <<GET>>
    ELSE [i \in DOMAIN config.allowed_http_methods |->
             Lower(config.allowed_http_methods[i])]

\* C20: when building the descriptor of an operation fails, generate_tools
\* still returns: the failing operation yields no descriptor and every other
\* operation of an allowed method yields its descriptor, once per entry of
\* the allowed-methods list that names its method.
C20_FailingOperationSkipped ==
    Len(runs) >= 1 =>
        /\ Len(tools) = Len(origins)
        /\ \A i \in DOMAIN origins :
              \E e \in Range(document.paths) :
                  e.path = origins[i].path /\ origins[i].method \in DOMAIN e.item
        /\ \A e \in Range(document.paths) : \A m \in DOMAIN e.item :
              Count(origins, [path |-> e.path, method |-> m]) =
                  IF Fails(e.item[m]) THEN 0 ELSE Count(AllowedMethodList, m)

\* the operation of the first path fails and a later path has a descriptor
C20_Witness ==
    /\ Len(runs) >= 1
    /\ Len(document.paths) >= 2
    /\ Fails(document.paths[1].item[GET])
    /\ \E i \in DOMAIN origins : origins[i].path = document.paths[2].path
    /\ \A i \in DOMAIN origins : origins[i].path # document.paths[1].path

C26_NoCredentialForwarded ==
    \A c \in Calls :
        BuiltParams(c) => DOMAIN calls[c].api_params \cap Credentials = {}

\* C22: for a response with a status below 400, execute_operation returns
\* the bare entries array when the decoded body is an object with an
\* "entries" key, the decoded body unchanged when it is anything else, and
\* the empty object when the body is empty.
C22_SuccessBody ==
    \A c \in Calls :
        LET r == calls[c].last_response IN
        (/\ calls[c].pc = "returned"
         /\ r.kind = "response"
         /\ r.status_code < 400
         /\ r.body # "invalid")
            => calls[c].op = Returned(CASE r.body = "entries" -> "data[entries]"
                                        [] r.body = "other" -> "data"
                                        [] r.body = "empty" -> "{}")

\* a call whose 200 answer was an envelope with entries returned the entries
C22_Witness ==
    \E c \in Calls :
        /\ calls[c].pc = "returned"
        /\ calls[c].last_response.status_code = 200
        /\ calls[c].last_response.body = "entries"
        /\ calls[c].op.kind = "return"
        /\ calls[c].result.text.payload = "data[entries]"

\* C27: whatever methods are allowed, a call with complete credentials for
\* a name that is in the tools list never ends in ToolNotFoundError.
C27_ListedToolsDispatch ==
    [][\A c \in Calls :
          (/\ calls[c].pc = "idle"
           /\ calls'[c].pc # "idle"
           /\ Lacking(calls'[c].arguments) = <<>>
           /\ calls'[c].name \in Range(Names(tools)))
              => ~(/\ calls'[c].pc = "raised"
                   /\ calls'[c].exception.class = "ToolNotFoundError")]_vars

\* C28: for every max_retries the configuration accepts, execute_operation
\* has issued at least one HTTP request when it reports a failure: it never
\* raises ConnectionError (or any error) without an attempt.
C28_AttemptBeforeFailure ==
    \A c \in Calls :
        (calls[c].constructed = 1 /\ calls[c].op.kind = "raise")
            => calls[c].client.requests >= 1

(***************************************************************************)
(* A claim about the name table, checked under SpecGen.                    *)
(***************************************************************************)
\* the document without the operations whose descriptor cannot be built
WithoutFailing(spec) ==
    [paths |-> [i \in DOMAIN spec.paths |->
        [path |-> spec.paths[i].path,
         item |-> [m \in {n \in DOMAIN spec.paths[i].item :
                              ~Fails(spec.paths[i].item[n])}
                     |-> spec.paths[i].item[m]]]]]

\* C29: a skipped operation leaves the name table as it was: the names of
\* the descriptors of a first generate_tools run are the names the same
\* document yields with the skipped operations absent.
C29_SkippedLeavesNames ==
    Len(runs) >= 1 =>
        Names(runs[1]) =
            Names(generate_tools(ToolGenerator(WithoutFailing(document),
                                               config.allowed_http_methods)).tools)

(***************************************************************************)
(* SpecClient: one UnityAPIClient and a health_check call on it.           *)
(***************************************************************************)
\* health_check whose except clause catches UnityAPIError only
health_check_CatchesAPIErrors(p, outcome) ==
    IF outcome.kind = "raise" /\ outcome.exception.class \notin UnityAPIErrorClasses
    THEN [p EXCEPT !.pc = "raised", !.op = outcome, !.exception = outcome.exception]
    ELSE [p EXCEPT !.pc = "done", !.op = outcome,
                   !.result = <<outcome.kind = "return">>]

\* health_check once execute_operation has ended with outcome: "return
\* True" after the call, "return False" in "except Exception"
health_check(p, outcome) ==
    [p EXCEPT !.pc = "done", !.op = outcome, !.result = <<outcome.kind = "return">>]

\* execute_operation inside health_check: the next iteration of the retry
\* loop up to its await of client.request, or the raise after the loop
ProbeAttempt(p) ==
    IF p.client.attempt < p.client.max_retries
    THEN [p EXCEPT !.pc = "request",
                   !.client = [_ensure_client(@) EXCEPT !.attempt = @ + 1,
                                                        !.requests = @ + 1]]
    ELSE health_check(p, Exhausted(p.client))

\* execute_operation inside health_check from the answer r of client.request
\* to asyncio.sleep or to the end of health_check
ProbeOnResponse(waiting, r) ==
    LET p == [waiting EXCEPT
                 !.last_response = r,
                 !.responses = Append(@, r),
                 !.client.last_error =
                     IF r.kind \in {"TimeoutException", "RequestError"}
                     THEN r.kind ELSE @]
        o == HandleResponse(p.client, r)
    IN CASE o.kind = "sleep" ->
                [p EXCEPT !.pc = "sleep",
                          !.client.waits = Append(@, Pow2(p.client.attempt))]
         [] o.kind = "pending" -> health_check(p, Exhausted(p.client))
         [] OTHER -> health_check(p, o)

InitClient ==
    /\ document = Doc1
    /\ config \in [allowed_http_methods : {<<>>}, max_retries : 0..MaxRetriesCfg]
    /\ tool_generator = <<>>
    /\ tools = <<>>
    /\ initialized = FALSE
    /\ runs = <<>>
    /\ origins = <<>>
    /\ resolved = NoResolved
    /\ calls = [c \in Calls |-> IdleCall]
    /\ init_calls = 0
    /\ loads = 0
    /\ http = NoHttp
    /\ probe = NoProbe

\* client = UnityAPIClient(host, username, password, max_retries=...);
\* await client.health_check() runs to its first await
HealthCheckBegin ==
    /\ probe.pc = "idle"
    /\ probe' = ProbeAttempt([NoProbe EXCEPT
                                 !.client = UnityAPIClient("c", "c", "c",
                                                           config.max_retries)])
    /\ UNCHANGED <<config, document, tool_generator, tools, initialized, runs, origins,
                   resolved, calls, init_calls, loads, http>>

\* client.request answers
HealthRespond ==
    /\ probe.pc = "request"
    /\ \E r \in Responses : probe' = ProbeOnResponse(probe, r)
    /\ UNCHANGED <<config, document, tool_generator, tools, initialized, runs, origins,
                   resolved, calls, init_calls, loads, http>>

\* asyncio.sleep(wait_time) is over
HealthWake ==
    /\ probe.pc = "sleep"
    /\ probe' = ProbeAttempt(probe)
    /\ UNCHANGED <<config, document, tool_generator, tools, initialized, runs, origins,
                   resolved, calls, init_calls, loads, http>>

\* await client.close() after the health check
ProbeClose ==
    /\ probe.pc = "done"
    /\ probe' = [probe EXCEPT !.pc = "closed", !.client = close(@)]
    /\ UNCHANGED <<config, document, tool_generator, tools, initialized, runs, origins,
                   resolved, calls, init_calls, loads, http>>

NextClient == HealthCheckBegin \/ HealthRespond \/ HealthWake \/ ProbeClose

SpecClient == InitClient /\ [][NextClient]_vars

\* the GET of the health check was answered with a status below 400 and a
\* body that execute_operation could return
GetCompleted(p) ==
    /\ p.responses # <<>>
    /\ p.last_response.kind = "response"
    /\ p.last_response.status_code < 400
    /\ p.last_response.body # "invalid"

\* C23: health_check returns True exactly when its GET completes without an
\* error and False for every error outcome (401, 429, another status of 400
\* or more, a connection failure, exhausted retries); it never raises.
C23_HealthCheckNeverRaises ==
    /\ probe.pc # "raised"
    /\ probe.pc \in {"done", "closed"} => probe.result = <<GetCompleted(probe)>>

\* both attempts of a health check timed out: it returned False
C23_Witness ==
    /\ probe.pc = "done"
    /\ probe.result = <<FALSE>>
    /\ Len(probe.responses) = 2
    /\ probe.last_response.kind = "TimeoutException"
    /\ probe.op.exception.class = "ConnectionError"

(***************************************************************************)
(* SpecHttp: the MCPHttpServer, its initialization, its /ready and /sse    *)
(* handlers and its ServerMetrics.                                         *)
(***************************************************************************)
MaxRequests == 3       \* HTTP requests the server is sent
MaxDirectCloses == 2   \* connection_closed calls made on the metrics object itself

\* a document without operations: the server initializes with no tools
EmptyDoc == [paths |-> <<>>]

HttpDocuments == {Doc1, EmptyDoc, ListPaths}

InitHttp ==
    /\ document \in HttpDocuments
    /\ config \in [allowed_http_methods : DispatchAllowedChoices, max_retries : {3}]
    /\ tool_generator = <<>>
    /\ tools = <<>>
    /\ initialized = FALSE
    /\ runs = <<>>
    /\ origins = <<>>
    /\ resolved = NoResolved
    /\ calls = [c \in Calls |-> IdleCall]
    /\ init_calls = 0
    /\ loads = 0
    /\ http = NoHttp
    /\ probe = NoProbe

\* ServerMetrics.record_request
record_request(metrics) == [metrics EXCEPT !.requests_total = @ + 1]

\* MCPHttpServer.initialize that sets the flag whether or not the inner
\* initialize returned
MCPHttpServer_initialize_IgnoreFailure(self, returned) ==
    [self EXCEPT !.initialized = TRUE]

\* MCPHttpServer.initialize after "await self.mcp_server.initialize()":
\* self._initialized = True is reached only when the await returned
MCPHttpServer_initialize(self, returned) ==
    IF returned THEN [self EXCEPT !.initialized = TRUE] ELSE self

\* await server.initialize() on the MCPHttpServer: a no-op once initialized.
\* The inner initialize returns exactly when it leaves the inner server
\* initialized; otherwise it raised.
HttpInitialize ==
    IF http.initialized
    THEN UNCHANGED vars
    ELSE /\ UnityMCPServer_initialize
         /\ http' = MCPHttpServer_initialize(http, initialized')
         /\ UNCHANGED probe

\* _handle_lifespan on "lifespan.startup": setup_logging, then initialize;
\* any exception is answered with lifespan.startup.failed
HandleLifespanStartup ==
    /\ http.startup = "none"
    /\ \E logging_ok \in BOOLEAN :
        IF ~logging_ok
        THEN /\ http' = [http EXCEPT !.startup = "failed"]
             /\ UNCHANGED <<config, document, tool_generator, tools, initialized, runs,
                            origins, resolved, calls, init_calls, loads, probe>>
        ELSE IF http.initialized
        THEN /\ http' = [http EXCEPT !.startup = "complete"]
             /\ UNCHANGED <<config, document, tool_generator, tools, initialized, runs,
                            origins, resolved, calls, init_calls, loads, probe>>
        ELSE /\ UnityMCPServer_initialize
             /\ http' = [MCPHttpServer_initialize(http, initialized') EXCEPT
                            !.startup = IF initialized' THEN "complete" ELSE "failed"]
             /\ UNCHANGED probe

\* _handle_ready that looks at the flag only
_handle_ready_FlagOnly(self, tool_list) ==
    IF self.initialized THEN 200 ELSE 503

\* _handle_ready: the status of the answer
_handle_ready(self, tool_list) ==
    IF self.initialized /\ Len(tool_list) > 0 THEN 200 ELSE 503

\* GET /ready through __call__
HandleReady ==
    /\ http.metrics.requests_total < MaxRequests
    /\ http' = [http EXCEPT !.metrics = record_request(@),
                            !.ready = _handle_ready(http, tools),
                            !.ready_requests = @ + 1]
    /\ UNCHANGED <<config, document, tool_generator, tools, initialized, runs, origins,
                   resolved, calls, init_calls, loads, probe>>

\* GET /sse through __call__: _handle_sse up to its await of the transport
SseOpen ==
    /\ http.metrics.requests_total < MaxRequests
    /\ http' = [http EXCEPT
                   !.metrics = [record_request(@) EXCEPT
                                   !.active_connections = connection_opened(@)],
                   !.sse = @ + 1,
                   !.opens = @ + 1]
    /\ UNCHANGED <<config, document, tool_generator, tools, initialized, runs, origins,
                   resolved, calls, init_calls, loads, probe>>

\* the transport of an SSE connection returns or raises: the finally clause
\* of _handle_sse, and record_error in __call__ when it raised
SseClose ==
    /\ http.sse > 0
    /\ \E failed \in BOOLEAN :
        http' = [http EXCEPT
                    !.metrics = [@ EXCEPT
                                    !.active_connections = connection_closed(@),
                                    !.errors_total = IF failed THEN @ + 1 ELSE @],
                    !.sse = @ - 1,
                    !.closes = @ + 1]
    /\ UNCHANGED <<config, document, tool_generator, tools, initialized, runs, origins,
                   resolved, calls, init_calls, loads, probe>>

\* server.metrics.connection_closed() called on the metrics object itself
ConnectionClosed ==
    /\ http.direct_closes < MaxDirectCloses
    /\ http' = [http EXCEPT
                   !.metrics.active_connections = connection_closed(@),
                   !.closes = @ + 1,
                   !.direct_closes = @ + 1]
    /\ UNCHANGED <<config, document, tool_generator, tools, initialized, runs, origins,
                   resolved, calls, init_calls, loads, probe>>

NextHttp ==
    \/ Initialize
    \/ HttpInitialize
    \/ HandleLifespanStartup
    \/ HandleReady
    \/ SseOpen
    \/ SseClose
    \/ ConnectionClosed

SpecHttp == InitHttp /\ [][NextHttp]_vars

\* C24: GET /ready answers 200 exactly when the HTTP server has completed
\* initialize and the tool list is not empty, and 503 otherwise.
C24_ReadyStatus ==
    [][http'.ready_requests = http.ready_requests + 1 =>
          /\ http'.ready \in {200, 503}
          /\ http'.ready = 200 <=> (http.initialized /\ tools # <<>>)]_vars

\* /ready answered 503 on an initialized server that has no tools
C24_Witness ==
    /\ http.ready = 503
    /\ http.ready_requests >= 1
    /\ http.initialized
    /\ initialized
    /\ tools = <<>>

\* C25: active_connections is never negative: each connection_opened adds
\* one, each connection_closed takes one away, and a close at 0 leaves 0.
C25_ActiveConnections ==
    /\ [](http.metrics.active_connections >= 0)
    /\ [][/\ http'.opens = http.opens + 1 =>
                http'.metrics.active_connections = http.metrics.active_connections + 1
          /\ http'.closes = http.closes + 1 =>
                http'.metrics.active_connections =
                    IF http.metrics.active_connections = 0 THEN 0
                    ELSE http.metrics.active_connections - 1]_vars

\* more closes than opens were made and the counter is at 0
C25_Witness ==
    /\ http.opens >= 1
    /\ http.closes > http.opens
    /\ http.metrics.active_connections = 0

\* C30: an initialized MCPHttpServer has an initialized UnityMCPServer, and
\* an initialized UnityMCPServer has loaded the spec and holds the list its
\* generate_tools call returned; an initialize call that fails leaves both
\* is_initialized false and the tools empty.
C30_InitializedMeansReady ==
    /\ [](http.initialized => initialized)
    /\ [](initialized => /\ loads >= 1
                         /\ tool_generator # <<>>
                         /\ runs # <<>>
                         /\ tools = runs[Len(runs)])
    /\ [][(init_calls' = init_calls + 1 /\ ~initialized') =>
             /\ tools' = <<>>
             /\ ~http'.initialized]_vars

\* the startup failed in generate_tools: the generator is set, nothing else
C30_Witness ==
    /\ http.startup = "failed"
    /\ init_calls >= 1
    /\ tool_generator # <<>>
    /\ ~initialized
    /\ ~http.initialized
    /\ tools = <<>>

====
